---- MODULE Spec2Model ----
(***************************************************************************)
(* RAG microservice (src/app.py): namespace resolution, the three vector   *)
(* index handlers (upsert, delete_by_document, query) and the extraction   *)
(* dispatch, as a state machine.                                           *)
(*                                                                         *)
(* Every handler is an `async def` that calls the synchronous OpenAI and   *)
(* Pinecone clients without awaiting in between, so one request is handled *)
(* in one step of the event loop: one action per handler.                  *)
(*                                                                         *)
(* Conventions:                                                            *)
(*   - a Python str whose characters matter (namespace, mime, filename,    *)
(*     document text) is a sequence of one-character strings;              *)
(*   - Optional[T] is a sequence of length <= 1: <<>> is None, <<v>> is v;  *)
(*   - a dict is a function whose DOMAIN is its key set.                   *)
(***************************************************************************)
EXTENDS Integers, Sequences, FiniteSets, TLC

VARIABLES
    store,   \* the remote index: a set of points [namespace, id, values, metadata]
    before,  \* the index as it was when the last request arrived
    req,     \* the last request: [op, body]
    calls,   \* the collaborator calls made while handling it, in order
    resp,    \* what the handler returned (or the error it raised)
    lastDelete  \* the last successful delete_by_document, while no upsert followed

vars == <<store, before, req, calls, resp, lastDelete>>

-----------------------------------------------------------------------------
(* Bounds of the model *)

MaxBatch == 2
MaxNsLen == 3

-----------------------------------------------------------------------------
(* Optional values and dicts *)

None == <<>>
Some(v) == <<v>>
Optional(S) == {None} \cup {Some(v) : v \in S}

EmptyDict == [k \in {} |-> TRUE]

\* {**a, **b}: the keys of both, b's value where both have the key
DictMerge(a, b) ==
    [k \in DOMAIN a \cup DOMAIN b |-> IF k \in DOMAIN b THEN b[k] ELSE a[k]]

SeqsUpTo(S, n) == UNION {[1..k -> S] : k \in 0..n}

-----------------------------------------------------------------------------
(* Config (src/app.py 18-24) *)

RAG_NAMESPACE == <<"d", "e", "f", "a", "u", "l", "t">>
EMBED_DIM == 512
EMBED_MODEL == "text-embedding-3-small"
DefaultTopK == 24

-----------------------------------------------------------------------------
(* get_namespace (src/app.py 43-47) *)

\* the characters str.strip() removes
Whitespace == {" ", "\t", "\n"}

RECURSIVE LStrip(_)
LStrip(s) ==
    IF s # <<>> /\ Head(s) \in Whitespace THEN LStrip(Tail(s)) ELSE s

RECURSIVE RStrip(_)
RStrip(s) ==
    IF s # <<>> /\ s[Len(s)] \in Whitespace
    THEN RStrip(SubSeq(s, 1, Len(s) - 1))
    ELSE s

\* str.strip()
Strip(s) == RStrip(LStrip(s))

\* the namespace is used as sent whenever one is sent
get_namespace_untrimmed(ns) ==
    LET given == IF ns = None THEN <<>> ELSE ns[1]
    IN  IF given # <<>> THEN given ELSE RAG_NAMESPACE

\* (ns or "").strip() or RAG_NAMESPACE
get_namespace(ns) ==
    LET given == IF ns = None THEN <<>> ELSE ns[1]
        trimmed == Strip(given)
    IN  IF trimmed # <<>> THEN trimmed ELSE RAG_NAMESPACE

-----------------------------------------------------------------------------
(* The remote vector index behind `index` (src/app.py 32): its contract as   *)
(* the service documents it (spec section 4.4). It is not code of app.py.    *)

\* one comparison of a metadata filter
FilterCmp(op, have, want) ==
    CASE op = "$eq" -> have = want
      [] op = "$ne" -> have # want
      [] OTHER -> FALSE

\* a point's metadata satisfies a filter {field: {op: value}}; {} matches all
Matches(metadata, filter) ==
    \A f \in DOMAIN filter :
        /\ f \in DOMAIN metadata
        /\ \A op \in DOMAIN filter[f] : FilterCmp(op, metadata[f], filter[f][op])

StoredPoint(ns, item) ==
    [namespace |-> ns, id |-> item.id, values |-> item.values,
     metadata |-> item.metadata]

\* index.upsert: each vector in turn replaces the point of its id in ns
RECURSIVE IndexUpsert(_, _, _)
IndexUpsert(st, vectors, ns) ==
    IF vectors = <<>> THEN st
    ELSE LET item == Head(vectors)
             kept == {p \in st : ~(p.namespace = ns /\ p.id = item.id)}
         IN  IndexUpsert(kept \cup {StoredPoint(ns, item)}, Tail(vectors), ns)

\* index.delete(namespace, filter)
IndexDelete(st, ns, filter) ==
    {p \in st : ~(p.namespace = ns /\ Matches(p.metadata, filter))}

\* one match of a query result
Match(p, includeValues, includeMetadata) ==
    [id |-> p.id,
     values |-> IF includeValues THEN p.values ELSE <<>>,
     metadata |-> IF includeMetadata THEN p.metadata ELSE EmptyDict]

\* index.query: the possible "matches" of a query. The ranking is the
\* service's; any topK of the candidates may come back.
IndexQuery(st, payload) ==
    LET filter == IF "filter" \in DOMAIN payload THEN payload["filter"] ELSE EmptyDict
        cands == {p \in st : p.namespace = payload["namespace"]
                             /\ Matches(p.metadata, filter)}
        k == IF payload["topK"] < Cardinality(cands)
             THEN payload["topK"] ELSE Cardinality(cands)
    IN  { {Match(p, payload["includeValues"], payload["includeMetadata"]) : p \in chosen} :
            chosen \in {c \in SUBSET cands : Cardinality(c) = k} }

\* what a failed remote call leaves in the handler: the client's exception
ServiceError(api) == [raised |-> api]

-----------------------------------------------------------------------------
(* The embedding provider behind `client` (src/app.py 30): one vector per    *)
(* input text on success.                                                    *)

\* the call, and what came of it (out: [raised] or [raised, data])
EmbeddingsCall(input, out) ==
    [api |-> "embeddings.create", model |-> EMBED_MODEL, input |-> input,
     dimensions |-> EMBED_DIM, out |-> out]

-----------------------------------------------------------------------------
(* Between requests nothing of a request is kept (request-scoped values).    *)

Idle == [op |-> "idle"]

\* the request's record, set by every handler
Handled(op, body) ==
    /\ req' = [op |-> op, body |-> body]
    /\ before' = store

\* the response has gone out: the request's objects are dropped
Respond ==
    /\ req # Idle
    /\ req' = Idle
    /\ calls' = <<>>
    /\ resp' = EmptyDict
    /\ before' = store
    /\ UNCHANGED <<store, lastDelete>>

-----------------------------------------------------------------------------
(* POST /pinecone/upsert (src/app.py 138-143) *)

\* the batch is sent last point first
UpsertItemsReversed(points) ==
    [i \in 1..Len(points) |->
        [id |-> points[Len(points) + 1 - i].id,
         values |-> points[Len(points) + 1 - i].values,
         metadata |-> points[Len(points) + 1 - i].metadata]]

\* items = [{"id": p.id, "values": p.values, "metadata": p.metadata} for p in body.points]
UpsertItems(points) ==
    [i \in 1..Len(points) |->
        [id |-> points[i].id, values |-> points[i].values,
         metadata |-> points[i].metadata]]

\* count is the number of different ids
UpsertResponseDistinct(ns, items) ==
    [ok |-> TRUE, namespace |-> ns,
     count |-> Cardinality({items[i].id : i \in 1..Len(items)})]

\* {"ok": True, "namespace": ns, "count": len(items)}
UpsertResponse(ns, items) ==
    [ok |-> TRUE, namespace |-> ns, count |-> Len(items)]

\* remoteOk: whether index.upsert returned (TRUE) or raised (FALSE)
pinecone_upsert(body, remoteOk) ==
    LET ns == get_namespace(body.namespace)
        items == UpsertItems(body.points)
    IN  /\ Handled("upsert", body)
        /\ calls' = << [api |-> "index.upsert", vectors |-> items, namespace |-> ns,
                         out |-> [raised |-> ~remoteOk]] >>
        /\ lastDelete' = None
        /\ IF remoteOk
           THEN /\ store' = IndexUpsert(store, items, ns)
                /\ resp' = UpsertResponse(ns, items)
           ELSE /\ store' = store
                /\ resp' = ServiceError("index.upsert")

-----------------------------------------------------------------------------
(* POST /pinecone/delete_by_document (src/app.py 145-149) *)

\* every other document goes
DeleteFilterNe(document_id) == ("document_id" :> ("$ne" :> document_id))

\* filter={"document_id": {"$eq": body.document_id}}
DeleteFilter(document_id) == ("document_id" :> ("$eq" :> document_id))

\* the delete goes to the default namespace whatever the request names
DeleteNamespaceDefault(body) == RAG_NAMESPACE

\* ns = get_namespace(body.namespace)
DeleteNamespace(body) == get_namespace(body.namespace)

pinecone_delete(body, remoteOk) ==
    LET ns == DeleteNamespace(body)
        filter == DeleteFilter(body.document_id)
    IN  /\ Handled("delete", body)
        /\ calls' = << [api |-> "index.delete", namespace |-> ns, filter |-> filter,
                         out |-> [raised |-> ~remoteOk]] >>
        /\ IF remoteOk
           THEN /\ store' = IndexDelete(store, ns, filter)
                /\ resp' = [ok |-> TRUE, namespace |-> ns]
                /\ lastDelete' =
                       Some([namespace |-> ns, document_id |-> body.document_id,
                             ids |-> {p.id : p \in {q \in store :
                                        /\ q.namespace = ns
                                        /\ "document_id" \in DOMAIN q.metadata
                                        /\ q.metadata["document_id"] = body.document_id}}])
           ELSE /\ store' = store
                /\ resp' = ServiceError("index.delete")
                /\ lastDelete' = lastDelete

-----------------------------------------------------------------------------
(* POST /pinecone/query (src/app.py 151-184) *)

\* `not body.text`: None or the empty string
TextMissing(body) == body.text = None \/ body.text[1] = ""

\* the text is embedded whenever there is one
QueryModeTextFirst(body) ==
    IF ~TextMissing(body) THEN "embed"
    ELSE IF body.vector = None THEN "missing" ELSE "vector"

\* no check of the text: whatever it is goes to the provider
QueryModeUnchecked(body) ==
    IF body.vector = None THEN "embed" ELSE "vector"

\* the branch taken at lines 161-171
QueryMode(body) ==
    IF body.vector = None
    THEN IF TextMissing(body) THEN "missing" ELSE "embed"
    ELSE "vector"

\* input=[body.text]
QueryEmbedInput(body) ==
    IF body.text = None THEN <<"">> ELSE <<body.text[1]>>

\* the request's topK is dropped for the default
QueryPayloadDefaultTopK(ns, emb, body) ==
    LET base == [namespace |-> ns, vector |-> emb, topK |-> DefaultTopK,
                 includeValues |-> body.includeValues,
                 includeMetadata |-> body.includeMetadata]
    IN  IF body.filter # None /\ body.filter[1] # EmptyDict
        THEN base @@ ("filter" :> body.filter[1])
        ELSE base

\* payload = {...}; if body.filter: payload["filter"] = body.filter
QueryPayload(ns, emb, body) ==
    LET base == [namespace |-> ns, vector |-> emb, topK |-> body.topK,
                 includeValues |-> body.includeValues,
                 includeMetadata |-> body.includeMetadata]
    IN  IF body.filter # None /\ body.filter[1] # EmptyDict
        THEN base @@ ("filter" :> body.filter[1])
        ELSE base

\* the dict index.query hands back: the matches, and whatever else the
\* adapter puts beside them
AdapterShapes == {"bare", "echo", "foreign", "status"}

AdapterResult(matches, shape, payload) ==
    CASE shape = "bare"    -> ("matches" :> matches)
      [] shape = "echo"    -> ("matches" :> matches)
                              @@ ("namespace" :> payload["namespace"])
                              @@ ("usage" :> 1)
      [] shape = "foreign" -> ("matches" :> matches) @@ ("namespace" :> <<>>)
      [] shape = "status"  -> ("matches" :> matches) @@ ("ok" :> FALSE)

\* {"ok": True, "namespace": ns, **res}
QueryResponse(ns, res) == DictMerge([ok |-> TRUE, namespace |-> ns], res)

MissingInput == [ok |-> FALSE, error |-> "Provide 'text' or 'vector'."]

\* embedOut: [raised] or [raised, data] of embeddings.create;
\* queryOut: [raised, shape] of index.query
pinecone_query(body, embedOut, queryOut) ==
    LET ns == get_namespace(body.namespace)
        mode == QueryMode(body)
        embCall == EmbeddingsCall(QueryEmbedInput(body), embedOut)
    IN  /\ Handled("query", body)
        /\ UNCHANGED <<store, lastDelete>>
        /\ CASE mode = "missing" ->
                    /\ calls' = <<>>
                    /\ resp' = MissingInput
             [] mode = "embed" /\ embedOut.raised ->
                    /\ calls' = <<embCall>>
                    /\ resp' = ServiceError("embeddings.create")
             [] OTHER ->
                    LET emb == IF mode = "embed" THEN embedOut.data[1] ELSE body.vector[1]
                        payload == QueryPayload(ns, emb, body)
                        qcall == [api |-> "index.query", payload |-> payload,
                                  out |-> [raised |-> queryOut.raised]]
                    IN  /\ calls' = (IF mode = "embed" THEN <<embCall>> ELSE <<>>) \o <<qcall>>
                        /\ IF queryOut.raised
                           THEN resp' = ServiceError("index.query")
                           ELSE \E matches \in IndexQuery(store, payload) :
                                    resp' = QueryResponse(ns,
                                                AdapterResult(matches, queryOut.shape, payload))

-----------------------------------------------------------------------------
(* Requests *)

Ids == {"doc1#0", "doc10#0"}
Vectors == {<<1>>, <<2>>}
DocumentIds == {"doc1", "doc10"}

\* the points a batch is made of: values and metadata change together or apart
UpsertPoints ==
    { [id |-> i, values |-> d[1], metadata |-> d[2]] :
        i \in Ids,
        d \in { <<<<1>>, ("document_id" :> "doc1") @@ ("tag" :> "t")>>,
                <<<<2>>, ("document_id" :> "doc10")>>,
                <<<<1>>, ("tag" :> "t")>> } }

Batches == SeqsUpTo(UpsertPoints, MaxBatch)

\* namespaces as requests carry them: absent, blank, plain, padded
NamespaceSamples ==
    { None, Some(<<" ">>), Some(<<"a">>), Some(<<" ", "a", " ">>) }

Filters == { None, Some(EmptyDict), Some(("document_id" :> ("$eq" :> "doc1"))) }

EmbedOutcomes ==
    { [raised |-> TRUE] } \cup { [raised |-> FALSE, data |-> <<v>>] : v \in Vectors }

QueryOutcomes ==
    { [raised |-> TRUE, shape |-> "bare"] }
        \cup { [raised |-> FALSE, shape |-> s] : s \in AdapterShapes }

PlainQueryOutcomes ==
    { [raised |-> TRUE, shape |-> "bare"], [raised |-> FALSE, shape |-> "echo"] }

UpsertBodies == [namespace : NamespaceSamples, points : Batches]

DeleteBodies == [namespace : NamespaceSamples, document_id : DocumentIds]

\* the queries of the index's life: a vector or a text, all else as sent by default
PlainQueryBodies ==
    { [namespace |-> n, vector |-> v, text |-> t, filter |-> f, topK |-> k,
       includeValues |-> FALSE, includeMetadata |-> TRUE] :
        n \in NamespaceSamples,
        v \in {None, Some(<<1>>)},
        t \in {None, Some("hola")},
        f \in {None},
        k \in {1, DefaultTopK} }

-----------------------------------------------------------------------------
(* The index's life: upserts, deletes and queries in any order *)

Init ==
    /\ store = {}
    /\ before = {}
    /\ req = Idle
    /\ calls = <<>>
    /\ resp = EmptyDict
    /\ lastDelete = None

\* a handler runs from start to end before the next request is taken up
Upsert ==
    /\ req = Idle
    /\ \E body \in UpsertBodies, ok \in BOOLEAN : pinecone_upsert(body, ok)

Delete ==
    /\ req = Idle
    /\ \E body \in DeleteBodies, ok \in BOOLEAN : pinecone_delete(body, ok)

Query ==
    /\ req = Idle
    /\ \E body \in PlainQueryBodies, e \in EmbedOutcomes, q \in PlainQueryOutcomes :
            pinecone_query(body, e, q)

Next == Upsert \/ Delete \/ Query \/ Respond

Spec == Init /\ [][Next]_vars

-----------------------------------------------------------------------------
(* Vocabulary of the properties *)

Succeeded == "ok" \in DOMAIN resp /\ resp["ok"] = TRUE

Raised == "raised" \in DOMAIN resp

IsOp(op) == req # Idle /\ req.op = op

\* the namespace the last request resolves to
ReqNs == get_namespace(req.body.namespace)

HasDoc(p, d) ==
    "document_id" \in DOMAIN p.metadata /\ p.metadata["document_id"] = d

BatchIds == {req.body.points[i].id : i \in 1..Len(req.body.points)}

\* the position of the last point of the batch that carries id
LastOf(id) ==
    CHOOSE i \in 1..Len(req.body.points) :
        /\ req.body.points[i].id = id
        /\ \A j \in (i + 1)..Len(req.body.points) : req.body.points[j].id # id

\* the points of the index that the last upsert wrote
Written == {p \in store : p.namespace = ReqNs /\ p.id \in BatchIds}

-----------------------------------------------------------------------------
(* C4  Upsert is overwrite-by-id in the resolved namespace: the index never  *)
(* holds two points of one id in one namespace; after a successful upsert    *)
(* each id of the batch has the values and the whole metadata of its last    *)
(* occurrence in the batch (no key of the earlier metadata survives), every  *)
(* other point is as before, and an upsert of points the namespace already   *)
(* holds leaves the index as it was.                                         *)

C4_UpsertOverwritesById ==
    /\ \A p, q \in store : (p.namespace = q.namespace /\ p.id = q.id) => p = q
    /\ (IsOp("upsert") /\ Succeeded) =>
         /\ \A id \in BatchIds :
              LET last == req.body.points[LastOf(id)]
                  held == {p \in store : p.namespace = ReqNs /\ p.id = id}
              IN  /\ Cardinality(held) = 1
                  /\ \A p \in held :
                        /\ p.values = last.values
                        /\ DOMAIN p.metadata = DOMAIN last.metadata
                        /\ \A k \in DOMAIN last.metadata : p.metadata[k] = last.metadata[k]
         /\ \A p \in before : (p.namespace # ReqNs \/ p.id \notin BatchIds) => p \in store
         /\ \A p \in store : p \in before \/ p \in Written
         /\ (\A id \in BatchIds :
                \E p \in before :
                    /\ p.namespace = ReqNs /\ p.id = id
                    /\ p.values = req.body.points[LastOf(id)].values
                    /\ p.metadata = req.body.points[LastOf(id)].metadata)
            => store = before

\* an upsert replaced a point whose metadata had a key the new metadata lacks,
\* from a batch that names the id twice
C4_Witness ==
    /\ IsOp("upsert") /\ Succeeded
    /\ Len(req.body.points) = 2
    /\ req.body.points[1].id = req.body.points[2].id
    /\ req.body.points[1].metadata # req.body.points[2].metadata
    /\ \E p \in before :
          /\ p.namespace = ReqNs /\ p.id = req.body.points[2].id
          /\ "tag" \in DOMAIN p.metadata
          /\ "tag" \notin DOMAIN req.body.points[2].metadata

-----------------------------------------------------------------------------
(* C5  After a successful delete_by_document(ns, d) the resolved namespace   *)
(* holds no point whose metadata document_id is d, every other point of the  *)
(* index (another document_id, no document_id, another namespace) is as      *)
(* before, and a query that follows in that namespace returns none of the    *)
(* points the delete removed.                                                *)

C5_DeleteRemovesDocument ==
    /\ (IsOp("delete") /\ Succeeded) =>
         /\ \A p \in store : ~(p.namespace = ReqNs /\ HasDoc(p, req.body.document_id))
         /\ \A p \in before :
              (p.namespace # ReqNs \/ ~HasDoc(p, req.body.document_id)) => p \in store
         /\ store \subseteq before
    /\ (IsOp("query") /\ Succeeded /\ lastDelete # None /\ "matches" \in DOMAIN resp) =>
         (ReqNs = lastDelete[1].namespace =>
            \A m \in resp["matches"] :
                /\ m.id \notin lastDelete[1].ids
                /\ ~HasDoc(m, lastDelete[1].document_id))

\* a query right after a delete that removed a point, in the namespace of the
\* delete, which still has another point to return
C5_Witness ==
    /\ IsOp("query") /\ Succeeded
    /\ lastDelete # None
    /\ lastDelete[1].ids # {}
    /\ ReqNs = lastDelete[1].namespace
    /\ "matches" \in DOMAIN resp
    /\ resp["matches"] # {}

-----------------------------------------------------------------------------
(* C6  delete_by_document is idempotent: when no point of the resolved       *)
(* namespace has the document_id, the index is left as it was and, the       *)
(* remote call having returned, the response is {ok: true, namespace} (so a  *)
(* second identical delete changes nothing and answers the same).            *)

C6_DeleteNoMatchIsNoOp ==
    (/\ IsOp("delete")
     /\ \A p \in before : ~(p.namespace = ReqNs /\ HasDoc(p, req.body.document_id)))
    => /\ store = before
       /\ ~Raised => resp = [ok |-> TRUE, namespace |-> ReqNs]

\* a delete that matched nothing in a namespace that holds points
C6_Witness ==
    /\ IsOp("delete") /\ Succeeded
    /\ \A p \in before : ~(p.namespace = ReqNs /\ HasDoc(p, req.body.document_id))
    /\ \E p \in before : p.namespace = ReqNs
    /\ \E p \in before : p.namespace # ReqNs /\ HasDoc(p, req.body.document_id)

-----------------------------------------------------------------------------
(* C7  As claimed: the count of a successful upsert is the number of points  *)
(* the call wrote into the resolved namespace, for every batch.              *)

C7_CountIsPointsWritten ==
    (IsOp("upsert") /\ Succeeded) => resp["count"] = Cardinality(Written)

(* C7  As amended: the count of a successful upsert is the length of the     *)
(* batch; it is the number of points written exactly when no id appears      *)
(* twice in the batch.                                                       *)

C7_CountIsBatchLength ==
    (IsOp("upsert") /\ Succeeded) =>
        /\ resp["count"] = Len(req.body.points)
        /\ (resp["count"] = Cardinality(Written))
             <=> (\A i, j \in 1..Len(req.body.points) :
                    req.body.points[i].id = req.body.points[j].id => i = j)

\* a successful upsert of a batch that names one id twice
C7_Witness ==
    /\ IsOp("upsert") /\ Succeeded
    /\ Len(req.body.points) = 2
    /\ req.body.points[1].id = req.body.points[2].id
    /\ resp["count"] = 2
    /\ Cardinality(Written) = 1

-----------------------------------------------------------------------------
(* The query handler on its own: every shape of query request, every outcome *)
(* of the two remote calls, over an index that a few upserts have filled.    *)

SeedBodies ==
    { [namespace |-> None,
       points |-> << [id |-> "doc1#0", values |-> <<1>>,
                      metadata |-> ("document_id" :> "doc1") @@ ("tag" :> "t")] >>],
      [namespace |-> None,
       points |-> << [id |-> "doc10#0", values |-> <<2>>,
                      metadata |-> ("document_id" :> "doc10")] >>] }

QueryBodies ==
    [namespace : {None, Some(<<" ", "a", " ">>)},
     vector : {None, Some(<<>>), Some(<<1>>)},
     text : {None, Some(""), Some("hola")},
     filter : Filters,
     topK : {1, DefaultTopK},
     includeValues : BOOLEAN,
     includeMetadata : BOOLEAN]

QuerySeed ==
    /\ req = Idle
    /\ \E body \in SeedBodies : pinecone_upsert(body, TRUE)

QueryAny ==
    /\ req = Idle
    /\ \E body \in QueryBodies, e \in EmbedOutcomes, q \in QueryOutcomes :
            pinecone_query(body, e, q)

NextQuery == QuerySeed \/ QueryAny \/ Respond

SpecQuery == Init /\ [][NextQuery]_vars

EmbedCalls == {i \in 1..Len(calls) : calls[i].api = "embeddings.create"}

-----------------------------------------------------------------------------
(* C1  A query whose vector is present (text given or not, the vector empty  *)
(* or not) makes no embedding call: its one remote call is the index query,  *)
(* and the vector of that query is the request's.                            *)

C1_VectorWinsNoEmbedding ==
    (IsOp("query") /\ req.body.vector # None) =>
        /\ EmbedCalls = {}
        /\ Len(calls) = 1
        /\ calls[1].api = "index.query"
        /\ calls[1].payload["vector"] = req.body.vector[1]

\* a query with both a vector and a text, answered
C1_Witness ==
    /\ IsOp("query")
    /\ req.body.vector # None
    /\ req.body.text = Some("hola")
    /\ Succeeded
    /\ Len(calls) = 1

-----------------------------------------------------------------------------
(* C2  A query with neither vector nor text answers {ok: false, error} and   *)
(* makes no call to the embedding provider or to the index, whose contents   *)
(* stay as they were.                                                        *)

C2_MissingInputNoRemoteCall ==
    (IsOp("query") /\ req.body.vector = None /\ req.body.text = None) =>
        /\ DOMAIN resp = {"ok", "error"}
        /\ resp["ok"] = FALSE
        /\ calls = <<>>
        /\ store = before

\* such a query, against an index that holds points
C2_Witness ==
    /\ IsOp("query")
    /\ req.body.vector = None /\ req.body.text = None
    /\ "error" \in DOMAIN resp
    /\ store # {}

-----------------------------------------------------------------------------
(* C8  As claimed: whenever the index query returned, the response has       *)
(* ok = true, the resolved namespace as its namespace, and the adapter's     *)
(* fields, whatever keys the adapter's result has.                           *)

QueryReturned ==
    /\ IsOp("query")
    /\ ~Raised
    /\ calls # <<>>
    /\ calls[Len(calls)].api = "index.query"

C8_ResponseOkAndNamespace ==
    QueryReturned =>
        /\ resp["ok"] = TRUE
        /\ resp["namespace"] = ReqNs
        /\ "matches" \in DOMAIN resp

-----------------------------------------------------------------------------
(* C10  As claimed: a query with a text and no vector makes exactly one      *)
(* embedding call, on [text]; if it fails the error is raised and the index  *)
(* is not queried; if it returns, exactly one index query follows, with the  *)
(* returned vector, the resolved namespace, the request's topK and flags,    *)
(* and the filter if the request has one.                                    *)

\* what follows the embedding call of a text query; withFilter says when the
\* request's filter is to be in the payload
TextQueryRuns(withFilter) ==
    /\ Len(calls) >= 1
    /\ calls[1].api = "embeddings.create"
    /\ calls[1].input = <<req.body.text[1]>>
    /\ Cardinality(EmbedCalls) = 1
    /\ IF calls[1].out.raised
       THEN /\ Len(calls) = 1
            /\ resp = ServiceError("embeddings.create")
       ELSE /\ Len(calls) = 2
            /\ calls[2].api = "index.query"
            /\ LET payload == calls[2].payload
               IN  /\ payload["vector"] = calls[1].out.data[1]
                   /\ payload["namespace"] = ReqNs
                   /\ payload["topK"] = req.body.topK
                   /\ payload["includeValues"] = req.body.includeValues
                   /\ payload["includeMetadata"] = req.body.includeMetadata
                   /\ "filter" \in DOMAIN payload <=> withFilter
                   /\ withFilter => payload["filter"] = req.body.filter[1]

C10_TextPresentIsEmbedded ==
    (IsOp("query") /\ req.body.vector = None /\ req.body.text # None) =>
        TextQueryRuns(req.body.filter # None)

(* C10  As amended: the same of a query with a non-empty text and no vector, *)
(* the filter being forwarded when it is present and not empty (an empty     *)
(* text is a missing input: no remote call).                                 *)

C10_NonEmptyTextIsEmbedded ==
    /\ (IsOp("query") /\ req.body.vector = None
            /\ req.body.text # None /\ req.body.text[1] # "") =>
          TextQueryRuns(req.body.filter # None /\ req.body.filter[1] # EmptyDict)
    /\ (IsOp("query") /\ req.body.vector = None /\ req.body.text = Some("")) =>
          (calls = <<>> /\ "error" \in DOMAIN resp)

\* a text query whose embedding returned and whose index query carried the
\* request's filter and a topK other than the default
C10_Witness ==
    /\ IsOp("query")
    /\ req.body.vector = None /\ req.body.text = Some("hola")
    /\ req.body.filter # None /\ req.body.filter[1] # EmptyDict
    /\ req.body.topK = 1
    /\ Len(calls) = 2
    /\ Succeeded
    /\ resp["matches"] # {}

-----------------------------------------------------------------------------
(* Namespace resolution in the three handlers: every namespace string up to  *)
(* MaxNsLen over a letter and two kinds of whitespace, or none at all.       *)

NsChars == {" ", "\t", "a"}

NamespaceInputs == Optional(SeqsUpTo(NsChars, MaxNsLen))

NsUpsert ==
    /\ req = Idle
    /\ \E n \in NamespaceInputs, ok \in BOOLEAN :
            pinecone_upsert([namespace |-> n, points |-> <<>>], ok)

NsDelete ==
    /\ req = Idle
    /\ \E n \in NamespaceInputs, ok \in BOOLEAN :
            pinecone_delete([namespace |-> n, document_id |-> "doc1"], ok)

NsQuery ==
    /\ req = Idle
    /\ \E n \in NamespaceInputs, q \in PlainQueryOutcomes :
            pinecone_query([namespace |-> n, vector |-> Some(<<1>>), text |-> None,
                            filter |-> None, topK |-> DefaultTopK,
                            includeValues |-> FALSE, includeMetadata |-> TRUE],
                           [raised |-> TRUE], q)

NextNamespace == NsUpsert \/ NsDelete \/ NsQuery \/ Respond

SpecNamespace == Init /\ [][NextNamespace]_vars

\* the namespace a remote call was made with
CallNs(c) == IF c.api = "index.query" THEN c.payload["namespace"] ELSE c.namespace

\* the positions of s that hold something other than whitespace
Inked(s) == {i \in 1..Len(s) : s[i] \notin {" ", "\t", "\n"}}

\* the resolution as specified: the default for an absent or blank s, else s
\* from its first to its last non-blank character
Resolved(s) ==
    IF s = None \/ Inked(s[1]) = {}
    THEN <<"d", "e", "f", "a", "u", "l", "t">>
    ELSE LET first == CHOOSE i \in Inked(s[1]) : \A j \in Inked(s[1]) : i <= j
             last == CHOOSE i \in Inked(s[1]) : \A j \in Inked(s[1]) : j <= i
         IN  [k \in 1..(last - first + 1) |-> s[1][first + k - 1]]

-----------------------------------------------------------------------------
(* C3  For every optional namespace s, upsert, delete_by_document and query  *)
(* make their remote call with, and report on success, the default           *)
(* namespace when s is absent, empty or all whitespace, and otherwise s      *)
(* without its leading and trailing whitespace; every s resolves.            *)

C3_NamespaceResolution ==
    (req # Idle) =>
        /\ Len(calls) = 1
        /\ CallNs(calls[1]) = Resolved(req.body.namespace)
        /\ Raised \/ resp["namespace"] = Resolved(req.body.namespace)

\* a delete whose namespace has whitespace around and inside it
C3_Witness ==
    /\ IsOp("delete")
    /\ req.body.namespace = Some(<<"\t", "a", " ">>)
    /\ calls[1].namespace = <<"a">>
    /\ Succeeded

-----------------------------------------------------------------------------
(* POST /extract (src/app.py 49-67, 106-125) *)

MaxBytes == 3
MaxPages == 2

\* s.find(sub) >= 0
Contains(sub, s) ==
    \E i \in 1..(Len(s) - Len(sub) + 1) : SubSeq(s, i, i + Len(sub) - 1) = sub

\* s.endswith(suf)
EndsWith(s, suf) ==
    /\ Len(suf) <= Len(s)
    /\ SubSeq(s, Len(s) - Len(suf) + 1, Len(s)) = suf

UpperToLower ==
    ("A" :> "a") @@ ("D" :> "d") @@ ("F" :> "f") @@ ("P" :> "p")
        @@ ("T" :> "t") @@ ("X" :> "x")

\* str.lower()
Lower(s) ==
    [i \in 1..Len(s) |-> IF s[i] \in DOMAIN UpperToLower THEN UpperToLower[s[i]] ELSE s[i]]

\* sep.join(parts)
RECURSIVE Join(_, _)
Join(parts, sep) ==
    IF parts = <<>> THEN <<>>
    ELSE IF Len(parts) = 1 THEN parts[1]
    ELSE parts[1] \o sep \o Join(Tail(parts), sep)

\* str.split(): the maximal runs of non-whitespace, in order
RECURSIVE SplitFrom(_, _, _)
SplitFrom(s, word, words) ==
    IF s = <<>>
    THEN IF word = <<>> THEN words ELSE Append(words, word)
    ELSE IF Head(s) \in Whitespace
         THEN SplitFrom(Tail(s), <<>>, IF word = <<>> THEN words ELSE Append(words, word))
         ELSE SplitFrom(Tail(s), Append(word, Head(s)), words)

Split(s) == SplitFrom(s, <<>>, <<>>)

\* " ".join(text.split())
Normalize(text) == Join(Split(text), <<" ">>)

\* bytes.decode("utf-8", errors="ignore") over the bytes of the model: an
\* ASCII byte is its character, 0xFF starts no UTF-8 sequence and is dropped
AsciiChar == (65 :> "A") @@ (32 :> " ") @@ (10 :> "\n")

RECURSIVE Utf8Ignore(_)
Utf8Ignore(bytes) ==
    IF bytes = <<>> THEN <<>>
    ELSE IF Head(bytes) \in DOMAIN AsciiChar
         THEN <<AsciiChar[Head(bytes)]>> \o Utf8Ignore(Tail(bytes))
         ELSE Utf8Ignore(Tail(bytes))

\* extract_txt: errors="ignore" never raises, so the latin-1 branch is dead
extract_txt(raw) == [raised |-> FALSE, text |-> Utf8Ignore(raw.bytes)]

\* extract_pdf: PdfReader raises on what it cannot read; else the pages'
\* texts (None -> "") joined by newlines
extract_pdf(raw) ==
    IF ~raw.pdf.ok THEN [raised |-> TRUE]
    ELSE [raised |-> FALSE,
          text |-> Join([i \in 1..Len(raw.pdf.pages) |->
                            IF raw.pdf.pages[i] = None THEN <<>> ELSE raw.pdf.pages[i][1]],
                        <<"\n">>)]

\* extract_docx: DocxDoc raises on what it cannot read; else the paragraphs
\* joined by newlines
extract_docx(raw) ==
    IF ~raw.docx.ok THEN [raised |-> TRUE]
    ELSE [raised |-> FALSE, text |-> Join(raw.docx.paragraphs, <<"\n">>)]

S_pdf == <<"p", "d", "f">>
S_word == <<"w", "o", "r", "d">>
S_msword == <<"m", "s", "w", "o", "r", "d">>
S_officedocument == <<"o", "f", "f", "i", "c", "e", "d", "o", "c", "u", "m", "e", "n", "t">>
S_text == <<"t", "e", "x", "t">>
S_dot_txt == <<".", "t", "x", "t">>
OctetStream == <<"a", "p", "p", "l", "i", "c", "a", "t", "i", "o", "n", "/", "o", "c", "t", "e", "t", "-", "s", "t", "r", "e", "a", "m">>

\* kind = mime or file.content_type or "application/octet-stream"
KindOf(mime, content_type) ==
    IF mime # None /\ mime[1] # <<>> THEN mime[1]
    ELSE IF content_type # None /\ content_type[1] # <<>> THEN content_type[1]
    ELSE OctetStream

ExtractCall(name, out) == [api |-> name, out |-> [raised |-> out.raised]]

\* the unknown kind has no fallback: a PDF error is raised
ExtractDispatchNoFallback(raw, kind, filename) ==
    IF Contains(S_pdf, kind)
    THEN [calls |-> <<ExtractCall("extract_pdf", extract_pdf(raw))>>, out |-> extract_pdf(raw)]
    ELSE IF Contains(S_word, kind) \/ Contains(S_msword, kind)
                \/ Contains(S_officedocument, kind)
    THEN [calls |-> <<ExtractCall("extract_docx", extract_docx(raw))>>, out |-> extract_docx(raw)]
    ELSE IF Contains(S_text, kind) \/ EndsWith(Lower(filename), S_dot_txt)
    THEN [calls |-> <<ExtractCall("extract_txt", extract_txt(raw))>>, out |-> extract_txt(raw)]
    ELSE [calls |-> <<ExtractCall("extract_pdf", extract_pdf(raw))>>, out |-> extract_pdf(raw)]

\* the if / elif chain of lines 111-122: the extractors called, and the text
\* (or the exception) that comes out
ExtractDispatch(raw, kind, filename) ==
    IF Contains(S_pdf, kind)
    THEN [calls |-> <<ExtractCall("extract_pdf", extract_pdf(raw))>>, out |-> extract_pdf(raw)]
    ELSE IF Contains(S_word, kind) \/ Contains(S_msword, kind)
                \/ Contains(S_officedocument, kind)
    THEN [calls |-> <<ExtractCall("extract_docx", extract_docx(raw))>>, out |-> extract_docx(raw)]
    ELSE IF Contains(S_text, kind) \/ EndsWith(Lower(filename), S_dot_txt)
    THEN [calls |-> <<ExtractCall("extract_txt", extract_txt(raw))>>, out |-> extract_txt(raw)]
    ELSE IF ~extract_pdf(raw).raised
    THEN [calls |-> <<ExtractCall("extract_pdf", extract_pdf(raw))>>, out |-> extract_pdf(raw)]
    ELSE [calls |-> <<ExtractCall("extract_pdf", extract_pdf(raw)),
                      ExtractCall("extract_txt", extract_txt(raw))>>,
          out |-> extract_txt(raw)]

extract(file, mime) ==
    LET raw == file.raw
        kind == KindOf(mime, file.content_type)
        done == ExtractDispatch(raw, kind, file.filename)
    IN  /\ Handled("extract", [file |-> file, mime |-> mime])
        /\ calls' = done.calls
        /\ resp' = IF done.out.raised
                   THEN ServiceError(done.calls[Len(done.calls)].api)
                   ELSE [text |-> Normalize(done.out.text)]
        /\ UNCHANGED <<store, lastDelete>>

-----------------------------------------------------------------------------
(* Uploads *)

Bytes == {65, 10, 255}

PageTexts == { None, Some(<<"A", " ", " ", "A">>) }

PdfParses ==
    { [ok |-> FALSE] } \cup { [ok |-> TRUE, pages |-> ps] : ps \in SeqsUpTo(PageTexts, MaxPages) }

DocxParses ==
    { [ok |-> FALSE], [ok |-> TRUE, paragraphs |-> << <<"A">>, <<"A", " ", "A">> >>] }

Raws == [bytes : SeqsUpTo(Bytes, MaxBytes), pdf : PdfParses, docx : DocxParses]

Mimes ==
    { None, Some(<<>>), Some(<<"a", "p", "p", "l", "i", "c", "a", "t", "i", "o", "n", "/", "p", "d", "f">>), Some(<<"a", "p", "p", "l", "i", "c", "a", "t", "i", "o", "n", "/", "m", "s", "w", "o", "r", "d">>),
      Some(<<"a", "p", "p", "l", "i", "c", "a", "t", "i", "o", "n", "/", "v", "n", "d", ".", "o", "p", "e", "n", "x", "m", "l", "f", "o", "r", "m", "a", "t", "s", "-", "o", "f", "f", "i", "c", "e", "d", "o", "c", "u", "m", "e", "n", "t", ".", "w", "o", "r", "d", "p", "r", "o", "c", "e", "s", "s", "i", "n", "g", "m", "l", ".", "d", "o", "c", "u", "m", "e", "n", "t">>),
      Some(<<"t", "e", "x", "t", "/", "p", "l", "a", "i", "n">>), Some(<<"i", "m", "a", "g", "e", "/", "p", "n", "g">>), Some(<<"a", "p", "p", "l", "i", "c", "a", "t", "i", "o", "n", "/", "P", "D", "F">>) }

ContentTypes == { None, Some(<<"a", "p", "p", "l", "i", "c", "a", "t", "i", "o", "n", "/", "p", "d", "f">>) }

Filenames == { <<"A", ".", "T", "X", "T">>, <<"a", ".", "p", "d", "f">>, <<"t", "x", "t">> }

Files == [filename : Filenames, content_type : ContentTypes, raw : Raws]

Extract ==
    /\ req = Idle
    /\ \E file \in Files, mime \in Mimes : extract(file, mime)

NextExtract == Extract \/ Respond

SpecExtract == Init /\ [][NextExtract]_vars

-----------------------------------------------------------------------------
(* C9  The extractor is picked by the first rule that matches: a kind with   *)
(* "pdf" in it runs the PDF extractor alone; a ".txt" filename with no kind  *)
(* hint at all runs the text decoding alone, whatever the bytes are; a kind  *)
(* that no rule knows (and a filename that is not ".txt") runs the PDF       *)
(* extractor first and, when that raises, answers with the decoded text      *)
(* rather than an error.                                                     *)

ReqKind == KindOf(req.body.mime, req.body.file.content_type)

NoKindHint ==
    /\ req.body.mime \in {None, Some(<<>>)}
    /\ req.body.file.content_type \in {None, Some(<<>>)}

Api(i) == calls[i].api

DecodedText == [text |-> Normalize(Utf8Ignore(req.body.file.raw.bytes))]

UnknownKind ==
    /\ \A w \in {S_pdf, S_word, S_msword, S_officedocument, S_text} : ~Contains(w, ReqKind)
    /\ ~EndsWith(Lower(req.body.file.filename), S_dot_txt)

C9_ExtractionDispatch ==
    IsOp("extract") =>
        /\ Contains(S_pdf, ReqKind) =>
              /\ Len(calls) = 1 /\ Api(1) = "extract_pdf"
              /\ \A i \in 1..Len(calls) : Api(i) # "extract_docx"
        /\ (NoKindHint /\ EndsWith(Lower(req.body.file.filename), S_dot_txt)) =>
              /\ Len(calls) = 1 /\ Api(1) = "extract_txt"
              /\ resp = DecodedText
        /\ UnknownKind =>
              /\ Api(1) = "extract_pdf"
              /\ IF req.body.file.raw.pdf.ok
                 THEN Len(calls) = 1 /\ ~Raised
                 ELSE /\ Len(calls) = 2 /\ Api(2) = "extract_txt"
                      /\ ~Raised
                      /\ resp = DecodedText

\* an upload of an unknown kind that is no PDF, answered with its bytes decoded
C9_Witness ==
    /\ IsOp("extract")
    /\ UnknownKind
    /\ ~req.body.file.raw.pdf.ok
    /\ req.body.file.raw.bytes = <<65, 255, 10>>
    /\ resp = [text |-> <<"A">>]

====
